---- MODULE Spec2Model ----
(***************************************************************************)
(* Model of the daily price collectors scripts/collect_history_curl.py     *)
(* (script = "curl") and scripts/collect_history.py (script = "yf"):       *)
(* the batch scheduler of main, the worker body process_symbol, the alias  *)
(* resolver try_aliases, the fetch loops get_stock_history and             *)
(* collect_stock_data, the rate-limiter gate respect_rate_limit and the    *)
(* persistence functions insert_stock and insert_historical_data, over a   *)
(* store with one shared psycopg2 connection.                              *)
(*                                                                         *)
(* Days are integers counted from 2023-01-01 (day 0).  A symbol is the     *)
(* sequence of its characters, so that format_symbol and strip are         *)
(* computed on the text as the code computes them.                         *)
(***************************************************************************)
EXTENDS Integers, Sequences, FiniteSets, TLC

(***************************************************************************)
(* Bounds of the model.                                                    *)
(***************************************************************************)
\* datetime.now().date() of the run, as a day number
Today == 4
\* number of symbols of the universe that main walks through
NSymbols == 3
\* BATCH_SIZE of the modelled runs (an environment setting of the program)
BatchSize == 2
\* MAX_WORKERS of the modelled runs (an environment setting of the program)
MaxWorkers == 2
\* largest number of attempts a fetch loop is called with
MaxRetriesArg == 4

(***************************************************************************)
(* Program constants.                                                      *)
(***************************************************************************)
\* get_stock_history(..., retries=3) and collect_stock_data(..., max_retries=3)
Retries == 3
\* datetime(2023, 1, 1) of get_stock_history, as a day number
EpochFloorCurl == 0
\* datetime(2023, 1, 2).date() of collect_stock_data, as a day number
EpochFloorYf == 1
\* MIN_REQUEST_INTERVAL = 3.0 seconds
MIN_REQUEST_INTERVAL == 3

\* pd.isna: the missing value of a price or volume cell (None / NaN)
NaN == -999

Scripts == {"curl", "yf"}

(***************************************************************************)
(* Symbols.                                                                *)
(***************************************************************************)
VBBR3 == <<"V", "B", "B", "R", "3">>
VBBR3_SA == <<"V", "B", "B", "R", "3", ".", "S", "A">>
BRDT3_SA == <<"B", "R", "D", "T", "3", ".", "S", "A">>
SOMA3 == <<"S", "O", "M", "A", "3">>
SOMA3_SA == <<"S", "O", "M", "A", "3", ".", "S", "A">>
PETR4 == <<"P", "E", "T", "R", "4">>
VALE3 == <<"V", "A", "L", "E", "3">>
VALE3_SA == <<"V", "A", "L", "E", "3", ".", "S", "A">>
ALUP11 == <<"A", "L", "U", "P", "1", "1">>

\* the symbols list of main, cut to the symbols the model runs
AllSymbols == <<PETR4, VALE3, VBBR3, ALUP11, SOMA3>>

symbols == SubSeq(AllSymbols, 1, NSymbols)

\* SYMBOL_ALIASES, for the symbols of the model
SYMBOL_ALIASES(s) ==
    IF s = VBBR3 THEN <<VBBR3_SA, BRDT3_SA>>
    ELSE IF s = SOMA3 THEN <<SOMA3_SA>>
    ELSE << >>

HasAliases(s) == s \in {VBBR3, SOMA3}

Digits == {"0", "1", "2", "3", "4", "5", "6", "7", "8", "9"}

EndsWithSA(s) ==
    /\ Len(s) >= 3
    /\ SubSeq(s, Len(s) - 2, Len(s)) = <<".", "S", "A">>

\* format_symbol: the provider identifier of a symbol
format_symbol(s) ==
    IF EndsWithSA(s) THEN s
    ELSE IF Len(s) = 5 /\ s[5] \in Digits THEN s \o <<".", "S", "A">>
    ELSE s

RECURSIVE LStrip(_)
LStrip(s) == IF s # << >> /\ Head(s) = " " THEN LStrip(Tail(s)) ELSE s

RECURSIVE RStrip(_)
RStrip(s) ==
    IF s # << >> /\ s[Len(s)] = " " THEN RStrip(SubSeq(s, 1, Len(s) - 1)) ELSE s

\* symbol.strip()
Strip(s) == RStrip(LStrip(s))

(***************************************************************************)
(* Dates.  psycopg2 returns a DATE column as datetime.date; the curl       *)
(* script's floor is a datetime.datetime.  Only a datetime has             *)
(* .timestamp().                                                           *)
(***************************************************************************)
None == [kind |-> "none", day |-> 0]
Date(d) == [kind |-> "date", day |-> d]
DateTime(d) == [kind |-> "datetime", day |-> d]

\* start_date.timestamp(): defined on datetime.datetime only
HasTimestamp(x) == x.kind = "datetime"

(***************************************************************************)
(* Bars, data frames and provider payloads.                                *)
(***************************************************************************)
Row(d, o, h, l, c, v, mn, mx) ==
    [date |-> d, open |-> o, high |-> h, low |-> l, close |-> c, volume |-> v,
     min_price |-> mn, max_price |-> mx]

\* a data frame, or None
Df(rs) == [none |-> FALSE, rows |-> rs]
DfNone == [none |-> TRUE, rows |-> << >>]

\* df is None or df.empty
DfEmpty(df) == df.none \/ df.rows = << >>

\* result[0] of the chart response: the timestamp array and the quote arrays
Payload(ts, o, h, l, c, v) ==
    [timestamp |-> ts, open |-> o, high |-> h, low |-> l, close |-> c, volume |-> v]

RowHasNaN(r) ==
    \/ r.open = NaN
    \/ r.high = NaN
    \/ r.low = NaN
    \/ r.close = NaN
    \/ r.volume = NaN
    \/ r.min_price = NaN
    \/ r.max_price = NaN

RowNotNaN(r) == ~RowHasNaN(r)

\* the frame parser zipping the arrays up to the shortest one
process_yahoo_data_Truncate(data) ==
    LET lens == {Len(data[f]) : f \in DOMAIN data}
        n == CHOOSE x \in lens : \A y \in lens : x <= y
    IN
    IF n = 0 THEN DfNone
    ELSE Df(SelectSeq(
             [k \in 1..n |->
                 Row(data.timestamp[k], data.open[k], data.high[k], data.low[k],
                     data.close[k], data.volume[k], data.low[k], data.high[k])],
             RowNotNaN))

\* process_yahoo_data: None when an array is missing or the arrays differ in
\* length (pd.DataFrame raises, caught), else the frame with min_price = low
\* and max_price = high, without the rows that hold a missing value (dropna)
process_yahoo_data(data) ==
    LET n == Len(data.timestamp) IN
    IF ~(n > 0 /\ Len(data.open) > 0) THEN DfNone
    ELSE IF \E f \in {"open", "high", "low", "close", "volume"} : Len(data[f]) # n
    THEN DfNone
    ELSE Df(SelectSeq(
             [k \in 1..n |->
                 Row(data.timestamp[k], data.open[k], data.high[k], data.low[k],
                     data.close[k], data.volume[k], data.low[k], data.high[k])],
             RowNotNaN))

(***************************************************************************)
(* The store: tables stocks and historical_data.                           *)
(***************************************************************************)
EmptyStore == [stocks |-> {}, bars |-> {}]

Max(S) == CHOOSE x \in S : \A y \in S : y <= x

\* SELECT id, name FROM stocks WHERE symbol = %s: the id, or 0 for no row
SelectStockId(db, symbol) ==
    IF \E r \in db.stocks : r.symbol = symbol
    THEN (CHOOSE r \in db.stocks : r.symbol = symbol).id
    ELSE 0

\* get_last_update_date: SELECT MAX(date) FROM historical_data WHERE stock_id
get_last_update_date(db, stock_id) ==
    LET ds == {b.date : b \in {x \in db.bars : x.stock_id = stock_id}} IN
    IF ds = {} THEN None ELSE Date(Max(ds))

NewId(db) == IF db.stocks = {} THEN 1 ELSE Max({r.id : r \in db.stocks}) + 1

\* a replace (delete, then insert) in place of the update on conflict
InsertStockId_Replace(db, symbol) == NewId(db)

\* the id insert_stock returns (RETURNING id)
InsertStockId(db, symbol) ==
    IF SelectStockId(db, symbol) # 0 THEN SelectStockId(db, symbol) ELSE NewId(db)

\* insert_stock: INSERT ... ON CONFLICT (symbol) DO UPDATE SET name
insert_stock(db, symbol, name) ==
    [db EXCEPT !.stocks =
        {r \in @ : r.symbol # symbol}
        \cup {[id |-> InsertStockId(db, symbol), symbol |-> symbol, name |-> name]}]

\* the filter with volume >= 0 in place of volume > 0
ValidRow_ZeroVolume(r) ==
    /\ r.open # NaN
    /\ r.high # NaN
    /\ r.low # NaN
    /\ r.close # NaN
    /\ r.volume # NaN
    /\ r.volume >= 0
    /\ r.open > 0
    /\ r.high > 0
    /\ r.low > 0
    /\ r.close > 0

\* the filter of insert_historical_data's list comprehension
ValidRow(r) ==
    /\ r.open # NaN
    /\ r.high # NaN
    /\ r.low # NaN
    /\ r.close # NaN
    /\ r.volume # NaN
    /\ r.volume > 0
    /\ r.open > 0
    /\ r.high > 0
    /\ r.low > 0
    /\ r.close > 0

\* one tuple of data: the curl script writes the frame's min_price and
\* max_price columns, the yfinance script writes Low and High again
DataTuple(scr, stock_id, r) ==
    [stock_id |-> stock_id, date |-> r.date, open |-> r.open, high |-> r.high,
     low |-> r.low, close |-> r.close, volume |-> r.volume,
     min_price |-> IF scr = "curl" THEN r.min_price ELSE r.low,
     max_price |-> IF scr = "curl" THEN r.max_price ELSE r.high]

\* the tuples written with the close in place of the low as min_price
HistData_CloseAsMin(scr, stock_id, df) ==
    IF DfEmpty(df) THEN << >>
    ELSE LET ok == SelectSeq(df.rows, ValidRow) IN
         [k \in 1..Len(ok) |->
             [DataTuple(scr, stock_id, ok[k]) EXCEPT !.min_price = ok[k].close]]

\* data of insert_historical_data
HistData(scr, stock_id, df) ==
    IF DfEmpty(df) THEN << >>
    ELSE LET ok == SelectSeq(df.rows, ValidRow) IN
         [k \in 1..Len(ok) |-> DataTuple(scr, stock_id, ok[k])]

\* ON CONFLICT (stock_id, date) DO NOTHING in place of DO UPDATE
UpsertBars_DoNothing(bars, data) ==
    bars
    \cup {data[k] : k \in {j \in 1..Len(data) :
                               ~\E b \in bars : /\ b.stock_id = data[j].stock_id
                                                /\ b.date = data[j].date}}

\* execute_values ... ON CONFLICT (stock_id, date) DO UPDATE SET ...
UpsertBars(bars, data) ==
    {b \in bars : ~\E k \in 1..Len(data) :
                      data[k].stock_id = b.stock_id /\ data[k].date = b.date}
    \cup {data[k] : k \in 1..Len(data)}

\* the instrument's bars replaced by the new ones (delete, then insert)
insert_historical_data_Replace(scr, db, stock_id, df) ==
    [db EXCEPT !.bars = {b \in @ : b.stock_id # stock_id}
                        \cup {HistData(scr, stock_id, df)[k] :
                                 k \in 1..Len(HistData(scr, stock_id, df))}]

\* insert_historical_data: the store after the call
insert_historical_data(scr, db, stock_id, df) ==
    [db EXCEPT !.bars = UpsertBars(@, HistData(scr, stock_id, df))]

\* insert_historical_data: the count returned
RowsInserted(scr, stock_id, df) == Len(HistData(scr, stock_id, df))

(***************************************************************************)
(* State.                                                                  *)
(***************************************************************************)
VARIABLES
    script,          \* which collector runs: "curl" or "yf"
    script_running,  \* the global flag the SIGALRM handler clears
    mainPc,          \* position of main
    batch_i,         \* i of main's batch loop (0-based offset into symbols)
    conn,            \* "none", "open", "lost" (dropped by the server) or "closed"
    task,            \* per position of symbols: the future and process_symbol's locals
    committed,       \* the committed store
    txn,             \* the store as the shared connection's open transaction sees it
    pendingW,        \* writes of the open transaction: <<position, "stock" | "bars">>
    committedW,      \* writes that were committed
    aborted,         \* the open transaction failed: the server refuses statements
                     \* until it is rolled back
    call,            \* the last persistence call of a store session: its input and results
    last_age,        \* seconds since last_request_time was set (capped)
    req_age,         \* seconds since the last physical request began (capped)
    gate,            \* per pool thread: its position in respect_rate_limit
    backoff,         \* one fetch loop with its sleeps: retry counter and delays
    batch_size,      \* BATCH_SIZE of the run (an environment setting)
    max_workers,     \* MAX_WORKERS of the run (an environment setting)
    parse            \* one call of get_stock_history with the responses it received

vars ==
    <<script, script_running, mainPc, batch_i, conn, task, committed, txn,
      pendingW, committedW, aborted, call, last_age, req_age, gate, backoff,
      batch_size, max_workers, parse>>

\* the session of persistence calls, the timed gate, the fetch loop in time
\* and the single call of get_stock_history are left alone by a run; the
\* settings are read only
auxVars == <<call, last_age, req_age, gate, backoff, batch_size, max_workers, parse>>

Threads == 1..MaxWorkers

NoCall ==
    [symbol |-> << >>, name |-> << >>, df |-> DfNone, id |-> 0, count |-> 0,
     repeat |-> FALSE]

GateIdle == [pc |-> "away", wait |-> 0]

BackoffIdle ==
    [pc |-> "idle", retries |-> 0, attempt |-> 0, delay |-> 0, pre |-> 0,
     sleep_time |-> 0, prev_pre |-> 0]

NoResponse == [kind |-> "none", data |-> << >>]

ParseIdle ==
    [pc |-> "idle", ident |-> << >>, attempt |-> 0, ret_df |-> DfNone,
     resp |-> NoResponse, sound |-> FALSE]

Tasks == 1..NSymbols

\* process_symbol's locals before the call and after its return
IdleLocals ==
    [pc |-> "idle", symbol |-> << >>, stock_id |-> 0, last_date |-> None,
     start_date |-> None, period1 |-> None, ident |-> << >>, alias_idx |-> 0,
     attempt |-> 0, df |-> DfNone, name |-> << >>, ret_df |-> DfNone,
     ret_name |-> << >>]

NewTask ==
    [status |-> "new", outcome |-> "none", fetched |-> FALSE, rows_inserted |-> 0,
     saw_last |-> None]
    @@ IdleLocals

\* the positions of the batch that starts at offset i
\* the slice symbols[i - 1 : i + batch_size], one position too early
BatchOf_Overlap(i) == {t \in Tasks : i <= t /\ t <= i + batch_size}

BatchOf(i) == {t \in Tasks : i < t /\ t <= i + batch_size}

Running == {t \in Tasks : task[t].status = "running"}
Queued == {t \in Tasks : task[t].status = "queued"}

Set(t, fields) == task' = [task EXCEPT ![t] = fields @@ @]

\* process_symbol returns: the future is done
Return(t, fields) ==
    task' = [task EXCEPT ![t] = fields @@ [status |-> "done"] @@ IdleLocals @@ @]

At(t, where) == task[t].status = "running" /\ task[t].pc = where

(***************************************************************************)
(* Stores the run can start from: each symbol never synced, or with an     *)
(* instrument row and no bar, or with a last bar on a given day.           *)
(***************************************************************************)
GoodRow(d) == Row(d, 1, 2, 1, 2, 5, 1, 2)

SyncStates == {"never", "nobars", "old", "yesterday", "today"}

LastDayOf(st) ==
    IF st = "old" THEN Today - 2 ELSE IF st = "yesterday" THEN Today - 1 ELSE Today

\* the sync state of each position of symbols in the stores a run starts from;
\* a position not listed was never synced
InitSyncs ==
    {<<"never", "never", "never">>,
     <<"old", "never", "yesterday">>,
     <<"nobars", "today", "never">>}

SyncOf(sync, k) == IF k <= Len(sync) THEN sync[k] ELSE "never"

\* the store in which position k's symbol is in sync state sync[k]; the
\* instrument of position k has id k
StoreOf(sync) ==
    [stocks |-> {[id |-> k, symbol |-> symbols[k], name |-> symbols[k]] :
                    k \in {j \in 1..NSymbols : SyncOf(sync, j) # "never"}},
     bars |-> {DataTuple("curl", k, GoodRow(LastDayOf(SyncOf(sync, k)))) :
                    k \in {j \in 1..NSymbols :
                              SyncOf(sync, j) \in {"old", "yesterday", "today"}}}]

InitStores == {StoreOf(sync) : sync \in InitSyncs}

Init ==
    /\ script \in Scripts
    /\ script_running = TRUE
    /\ mainPc = "connect"
    /\ batch_i = 0
    /\ conn = "none"
    /\ task = [t \in Tasks |-> NewTask]
    /\ committed \in InitStores
    /\ txn = committed
    /\ pendingW = {}
    /\ committedW = {}
    /\ aborted = FALSE
    /\ call = NoCall
    /\ last_age = 0
    /\ req_age = 0
    /\ gate = [w \in Threads |-> GateIdle]
    /\ backoff = BackoffIdle
    /\ parse = ParseIdle
    /\ batch_size = BatchSize
    /\ max_workers = MaxWorkers

(***************************************************************************)
(* main and the SIGALRM handler.                                           *)
(***************************************************************************)
\* timeout_handler: script_running = False
Timeout ==
    /\ mainPc \notin {"done", "crashed"}
    /\ script_running
    /\ script_running' = FALSE
    /\ UNCHANGED <<auxVars, script, mainPc, batch_i, conn, task, committed, txn, pendingW,
                   committedW, aborted>>

\* psycopg2.connect succeeds
Connect ==
    /\ mainPc = "connect"
    /\ conn' = "open"
    /\ mainPc' = "loop"
    /\ UNCHANGED <<auxVars, script, script_running, batch_i, task, committed, txn, pendingW,
                   committedW, aborted>>

\* the failure of psycopg2.connect logged and the batch loop entered all the same
ConnectFail_GoOn ==
    /\ mainPc = "connect"
    /\ mainPc' = "loop"
    /\ UNCHANGED <<auxVars, script, script_running, batch_i, conn, task, committed, txn,
                   pendingW, committedW, aborted>>

\* psycopg2.connect raises: except Exception logs, then finally runs
ConnectFail ==
    /\ mainPc = "connect"
    /\ mainPc' = "finally"
    /\ UNCHANGED <<auxVars, script, script_running, batch_i, conn, task, committed, txn,
                   pendingW, committedW, aborted>>

\* for i in range(0, len(symbols), BATCH_SIZE): the range is exhausted
LoopEnd ==
    /\ mainPc = "loop"
    /\ batch_i >= NSymbols
    /\ mainPc' = "shutdown"
    /\ UNCHANGED <<auxVars, script, script_running, batch_i, conn, task, committed, txn,
                   pendingW, committedW, aborted>>

\* if not script_running: break
LoopBreak ==
    /\ mainPc = "loop"
    /\ batch_i < NSymbols
    /\ ~script_running
    /\ mainPc' = "shutdown"
    /\ UNCHANGED <<auxVars, script, script_running, batch_i, conn, task, committed, txn,
                   pendingW, committedW, aborted>>

\* the batch loop without its test of script_running
SubmitBatch_NoDeadline ==
    /\ mainPc = "loop"
    /\ batch_i < NSymbols
    /\ task' = [t \in Tasks |->
                   IF t \in BatchOf(batch_i)
                   THEN [task[t] EXCEPT !.status = "queued"] ELSE task[t]]
    /\ mainPc' = "wait"
    /\ UNCHANGED <<auxVars, script, script_running, batch_i, conn, committed, txn, pendingW,
                   committedW, aborted>>

\* futures = [executor.submit(process_symbol, symbol, conn) for symbol in batch]
SubmitBatch ==
    /\ mainPc = "loop"
    /\ batch_i < NSymbols
    /\ script_running
    /\ task' = [t \in Tasks |->
                   IF t \in BatchOf(batch_i)
                   THEN [task[t] EXCEPT !.status = "queued"] ELSE task[t]]
    /\ mainPc' = "wait"
    /\ UNCHANGED <<auxVars, script, script_running, batch_i, conn, committed, txn, pendingW,
                   committedW, aborted>>

\* wait returning on the first finished future (return_when=FIRST_COMPLETED)
BatchDone_First(i) == \E t \in BatchOf(i) : task[t].status = "done"

\* the guard of concurrent.futures.wait(futures): every future of the batch is done
BatchDone(i) == \A t \in BatchOf(i) : task[t].status = "done"

\* concurrent.futures.wait(futures) returns, then the pause test
WaitBatch ==
    /\ mainPc = "wait"
    /\ BatchDone(batch_i)
    /\ IF batch_i + batch_size < NSymbols /\ script_running
       THEN mainPc' = "pause" /\ UNCHANGED batch_i
       ELSE mainPc' = "loop" /\ batch_i' = batch_i + batch_size
    /\ UNCHANGED <<auxVars, script, script_running, conn, task, committed, txn, pendingW,
                   committedW, aborted>>

\* time.sleep(pause_time) returns
Pause ==
    /\ mainPc = "pause"
    /\ mainPc' = "loop"
    /\ batch_i' = batch_i + batch_size
    /\ UNCHANGED <<auxVars, script, script_running, conn, task, committed, txn, pendingW,
                   committedW, aborted>>

\* the with block of the executor ends: shutdown(wait=True)
Shutdown ==
    /\ mainPc = "shutdown"
    /\ \A t \in Tasks : task[t].status \in {"new", "done"}
    /\ mainPc' = "finally"
    /\ UNCHANGED <<auxVars, script, script_running, batch_i, conn, task, committed, txn,
                   pendingW, committedW, aborted>>

\* finally: the curl script tests 'conn' in locals() first; the yfinance
\* script reads conn, which is unbound when connect raised
Finally ==
    /\ mainPc = "finally"
    /\ IF conn # "none"
       THEN conn' = "closed" /\ mainPc' = "done"
       ELSE /\ UNCHANGED conn
            /\ mainPc' = IF script = "curl" THEN "done" ELSE "crashed"
    /\ UNCHANGED <<auxVars, script, script_running, batch_i, task, committed, txn, pendingW,
                   committedW, aborted>>

(***************************************************************************)
(* The worker pool and process_symbol.                                     *)
(***************************************************************************)
mainVars == <<script, script_running, mainPc, batch_i, conn, auxVars>>
dbVars == <<committed, txn, pendingW, committedW, aborted>>

\* a pool that starts a thread for every queued future
StartTask_Unbounded(t) ==
    /\ task[t].status = "queued"
    /\ \A u \in Queued : t <= u
    /\ Set(t, [status |-> "running", pc |-> "ps_start"])
    /\ UNCHANGED <<mainVars, dbVars>>

\* a pool thread takes the oldest queued future
StartTask(t) ==
    /\ task[t].status = "queued"
    /\ Cardinality(Running) < max_workers
    /\ \A u \in Queued : t <= u
    /\ Set(t, [status |-> "running", pc |-> "ps_start"])
    /\ UNCHANGED <<mainVars, dbVars>>

\* if not script_running: return
PsSkip(t) ==
    /\ At(t, "ps_start")
    /\ ~script_running
    /\ Return(t, [outcome |-> "skipped_timeout"])
    /\ UNCHANGED <<mainVars, dbVars>>

\* symbol = symbol.strip()
PsBegin(t) ==
    /\ At(t, "ps_start")
    /\ script_running
    /\ Set(t, [symbol |-> Strip(symbols[t]), pc |-> "select_stock"])
    /\ UNCHANGED <<mainVars, dbVars>>

\* SELECT id, name FROM stocks WHERE symbol = %s
SelectStock(t) ==
    /\ At(t, "select_stock")
    /\ ~aborted
    /\ LET id == SelectStockId(txn, task[t].symbol) IN
       Set(t, [stock_id |-> id, pc |-> IF id # 0 THEN "get_last" ELSE "resolve"])
    /\ UNCHANGED <<mainVars, dbVars>>

\* start_date = last_date + timedelta(days=1)
NextDay(last) == Date(last.day + 1)

\* the window test on last_date > today in place of start_date >= today
AlreadyCurrent_LastAfterToday(start) == start.day > Today + 1

\* if start_date >= datetime.now().date(): the symbol is already up to date
AlreadyCurrent(start) == start.day >= Today

\* last_date = get_last_update_date(conn, stock_id) and the window test
GetLast(t) ==
    /\ At(t, "get_last")
    /\ ~aborted
    /\ LET last == get_last_update_date(txn, task[t].stock_id) IN
       IF last = None
       THEN Set(t, [pc |-> "resolve"])
       ELSE IF AlreadyCurrent(NextDay(last))
       THEN Return(t, [outcome |-> "current", saw_last |-> last])
       ELSE Set(t, [last_date |-> last, start_date |-> NextDay(last),
                    saw_last |-> last, pc |-> "resolve"])
    /\ UNCHANGED <<mainVars, dbVars>>

DbStatements == {"select_stock", "get_last", "insert_stock", "insert_hist"}

\* a statement raises (a constraint or connection failure, or the transaction
\* is already aborted): control passes to except Exception
DbError(t) ==
    /\ task[t].status = "running"
    /\ task[t].pc \in DbStatements
    /\ aborted' = TRUE
    /\ Set(t, [pc |-> "except"])
    /\ UNCHANGED <<mainVars, committed, txn, pendingW, committedW>>

\* get_stock_history up to its retry loop: format_symbol, the default start
\* date and int(start_date.timestamp()), which raises for a datetime.date
get_stock_history_enter(ident, start_date) ==
    LET sd == IF start_date = None THEN DateTime(EpochFloorCurl) ELSE start_date IN
    IF HasTimestamp(sd)
    THEN [ident |-> format_symbol(ident), period1 |-> sd, attempt |-> 0,
          pc |-> "att_check"]
    ELSE [pc |-> "except"]

\* collect_stock_data up to its retry loop: the default start date, retry = 0,
\* name = symbol
collect_stock_data_enter(ident, start_date) ==
    LET sd == IF start_date = None THEN Date(EpochFloorYf) ELSE start_date IN
    [ident |-> ident, period1 |-> sd, attempt |-> 0, ret_name |-> ident,
     pc |-> "att_check"]

FetchEnter(scr, ident, start_date) ==
    IF scr = "curl" THEN get_stock_history_enter(ident, start_date)
    ELSE collect_stock_data_enter(ident, start_date)

\* name, df = try_aliases(symbol, start_date): the call for the symbol itself
TryAliases(t) ==
    /\ At(t, "resolve")
    /\ Set(t, FetchEnter(script, task[t].symbol, task[t].start_date)
              @@ [alias_idx |-> 0])
    /\ UNCHANGED <<mainVars, dbVars>>

(***************************************************************************)
(* get_stock_history (curl script).                                        *)
(***************************************************************************)
\* the retry loop without its test of script_running
GshCheck_NoDeadline(t) ==
    /\ script = "curl"
    /\ At(t, "att_check")
    /\ IF task[t].attempt >= Retries
       THEN Set(t, [ret_df |-> DfNone, pc |-> "fetch_return"])
       ELSE Set(t, [pc |-> IF task[t].attempt > 0 THEN "backoff" ELSE "gate"])
    /\ UNCHANGED <<mainVars, dbVars>>

\* for attempt in range(retries): if not script_running: return None
GshCheck(t) ==
    /\ script = "curl"
    /\ At(t, "att_check")
    /\ IF task[t].attempt >= Retries \/ ~script_running
       THEN Set(t, [ret_df |-> DfNone, pc |-> "fetch_return"])
       ELSE Set(t, [pc |-> IF task[t].attempt > 0 THEN "backoff" ELSE "gate"])
    /\ UNCHANGED <<mainVars, dbVars>>

\* time.sleep(backoff_time) returns
GshBackoff(t) ==
    /\ script = "curl"
    /\ At(t, "backoff")
    /\ Set(t, [pc |-> "gate"])
    /\ UNCHANGED <<mainVars, dbVars>>

\* respect_rate_limit() returns
GshGate(t) ==
    /\ script = "curl"
    /\ At(t, "gate")
    /\ Set(t, [pc |-> "request"])
    /\ UNCHANGED <<mainVars, dbVars>>

\* the bars the provider holds for an identifier, as the chart arrays: none
\* for an identifier without the suffix .SA (format_symbol leaves ALUP11 bare)
ChartData(ident) ==
    IF ~EndsWithSA(ident) THEN Payload(<< >>, << >>, << >>, << >>, << >>, << >>)
    ELSE IF ident = VBBR3_SA
    THEN \* a day without trades
         Payload(<<Today>>, <<1>>, <<2>>, <<1>>, <<2>>, <<0>>)
    ELSE IF ident = VALE3_SA
    THEN \* a day without trades, then a traded day
         Payload(<<Today - 1, Today>>, <<1, 3>>, <<2, 4>>, <<1, 2>>, <<2, 3>>, <<0, 7>>)
    ELSE Payload(<<Today>>, <<1>>, <<2>>, <<1>>, <<2>>, <<5>>)

\* the chart arrays with the last quote missing from every quote array
Desync(p) ==
    [f \in DOMAIN p |->
        IF f = "timestamp" \/ p[f] = << >> THEN p[f]
        ELSE SubSeq(p[f], 1, Len(p[f]) - 1)]

\* the chart arrays with every close missing (null)
NullClose(p) == [p EXCEPT !.close = [k \in DOMAIN @ |-> NaN]]

\* the chart arrays with the last timestamp missing
ShortStamps(p) ==
    [p EXCEPT !.timestamp = IF @ = << >> THEN @ ELSE SubSeq(@, 1, Len(@) - 1)]

\* the chart arrays without indicators.quote
NoQuote(p) == Payload(p.timestamp, << >>, << >>, << >>, << >>, << >>)

\* the chart arrays without the volume array
NoVolume(p) == [p EXCEPT !.volume = << >>]

\* the structurally incomplete forms of a result
Incomplete(p) == {Desync(p), ShortStamps(p), NoQuote(p), NoVolume(p)}

\* what one request for an identifier can give: a status other than 200, an
\* error object, an exception of the transport, no result, or a result: the
\* identifier's bars, whole, structurally incomplete or with null quotes
CurlResponses(ident) ==
    {[kind |-> k, data |-> ChartData(ident)] :
        k \in {"status", "error", "exception", "no_result"}}
    \cup
    {[kind |-> "result", data |-> p] :
        p \in {ChartData(ident), NullClose(ChartData(ident))}
               \cup Incomplete(ChartData(ident))}

\* the handling of one response at a given attempt: what get_stock_history
\* returns, or the next attempt
GshHandle(resp, attempt) ==
    LET df == process_yahoo_data(resp.data) IN
    IF resp.kind = "no_result"
    THEN [ret_df |-> DfNone, pc |-> "fetch_return"]
    ELSE IF resp.kind = "result" /\ ~DfEmpty(df)
    THEN [ret_df |-> df, pc |-> "fetch_return"]
    ELSE [attempt |-> attempt + 1, pc |-> "att_check"]

\* session.get(url, ...) and the handling of its response
GshRequest(t, resp) ==
    /\ script = "curl"
    /\ At(t, "request")
    /\ Set(t, [fetched |-> TRUE] @@ GshHandle(resp, task[t].attempt))
    /\ UNCHANGED <<mainVars, dbVars>>

(***************************************************************************)
(* collect_stock_data (yfinance script).                                   *)
(***************************************************************************)
\* while retry < max_retries and script_running
CsdCheck(t) ==
    /\ script = "yf"
    /\ At(t, "att_check")
    /\ IF task[t].attempt < Retries /\ script_running
       THEN Set(t, [pc |-> IF task[t].attempt > 0 THEN "backoff" ELSE "request"])
       ELSE Set(t, [ret_df |-> Df(<< >>), pc |-> "fetch_return"])
    /\ UNCHANGED <<mainVars, dbVars>>

\* time.sleep(sleep_time) returns
CsdBackoff(t) ==
    /\ script = "yf"
    /\ At(t, "backoff")
    /\ Set(t, [pc |-> "request"])
    /\ UNCHANGED <<mainVars, dbVars>>

\* the frame ticker.history holds for an identifier (no min_price and
\* max_price columns: 0 stands for the absent column)
HistoryData(ident) ==
    LET p == ChartData(ident) IN
    Df([k \in 1..Len(p.timestamp) |->
           Row(p.timestamp[k], p.open[k], p.high[k], p.low[k], p.close[k],
               p.volume[k], 0, 0)])

\* what ticker.history can give for an identifier: it raises, or returns an
\* empty frame, or the identifier's frame
YfHistories(ident) ==
    {[raises |-> TRUE, df |-> Df(<< >>)],
     [raises |-> FALSE, df |-> Df(<< >>)],
     [raises |-> FALSE, df |-> HistoryData(ident)]}

\* f"{symbol}.SA"
WithSA(ident) == ident \o <<".", "S", "A">>

\* ticker.history(...) for the symbol as given
CsdRequest(t, r) ==
    /\ script = "yf"
    /\ At(t, "request")
    /\ IF r.raises
       THEN Set(t, [fetched |-> TRUE, attempt |-> task[t].attempt + 1,
                    pc |-> "att_check"])
       ELSE Set(t, [fetched |-> TRUE, ret_df |-> r.df,
                    pc |-> IF DfEmpty(r.df) THEN "request_sa" ELSE "info"])
    /\ UNCHANGED <<mainVars, dbVars>>

\* ticker_sa.history(...) for the symbol with the suffix .SA
CsdRequestSA(t, r) ==
    /\ script = "yf"
    /\ At(t, "request_sa")
    /\ IF r.raises
       THEN Set(t, [attempt |-> task[t].attempt + 1, pc |-> "att_check"])
       ELSE \* ticker = ticker_sa if not df.empty else ticker
            Set(t, [ret_df |-> r.df, pc |-> "info",
                    ident |-> IF DfEmpty(r.df) THEN task[t].ident
                              ELSE WithSA(task[t].ident)])
    /\ UNCHANGED <<mainVars, dbVars>>

\* the name the provider knows an identifier by (longName / shortName)
InfoName(ident) == <<"N", ":">> \o ident

\* the retry loop without retry += 1 on an empty frame
CsdInfo_NoIncrement(t, named) ==
    /\ script = "yf"
    /\ At(t, "info")
    /\ LET nm == IF named THEN InfoName(task[t].ident) ELSE task[t].ret_name IN
       IF ~DfEmpty(task[t].ret_df)
       THEN Set(t, [ret_name |-> nm, pc |-> "fetch_return"])
       ELSE Set(t, [ret_name |-> nm, pc |-> "att_check"])
    /\ UNCHANGED <<mainVars, dbVars>>

\* info = ticker.info (a failure is caught inside), then the test of df
CsdInfo(t, named) ==
    /\ script = "yf"
    /\ At(t, "info")
    /\ LET nm == IF named THEN InfoName(task[t].ident) ELSE task[t].ret_name IN
       IF ~DfEmpty(task[t].ret_df)
       THEN Set(t, [ret_name |-> nm, pc |-> "fetch_return"])
       ELSE Set(t, [ret_name |-> nm, attempt |-> task[t].attempt + 1,
                    pc |-> "att_check"])
    /\ UNCHANGED <<mainVars, dbVars>>

(***************************************************************************)
(* try_aliases, after the fetch of one identifier has returned.            *)
(***************************************************************************)
\* the name try_aliases hands back for a fetch: the curl script keeps
\* symbol_name = symbol, the yfinance script takes the name the fetch resolved
ResolvedName(scr, symbol, ret_name) == IF scr = "curl" THEN symbol ELSE ret_name

\* if (df is None or df.empty) and symbol in SYMBOL_ALIASES and script_running
TaAfterSymbol(t) ==
    /\ At(t, "fetch_return")
    /\ task[t].alias_idx = 0
    /\ LET got == [df |-> task[t].ret_df,
                   name |-> ResolvedName(script, task[t].symbol, task[t].ret_name)]
       IN
       IF DfEmpty(task[t].ret_df) /\ HasAliases(task[t].symbol) /\ script_running
       THEN Set(t, got @@ [alias_idx |-> 1, pc |-> "alias_loop"])
       ELSE Set(t, got @@ [pc |-> "after_resolve"])
    /\ UNCHANGED <<mainVars, dbVars>>

\* the alias loop without its break on timeout
TaAliasLoop_NoBreak(t) ==
    /\ At(t, "alias_loop")
    /\ LET al == SYMBOL_ALIASES(task[t].symbol)
           k == task[t].alias_idx
       IN
       IF k > Len(al)
       THEN Set(t, [pc |-> "after_resolve"])
       ELSE IF al[k] = task[t].symbol
       THEN Set(t, [alias_idx |-> k + 1])
       ELSE Set(t, FetchEnter(script, al[k], task[t].start_date))
    /\ UNCHANGED <<mainVars, dbVars>>

\* for alias in SYMBOL_ALIASES[symbol]: the break on timeout, the skip of an
\* alias equal to the symbol, and the fetch of the alias
TaAliasLoop(t) ==
    /\ At(t, "alias_loop")
    /\ LET al == SYMBOL_ALIASES(task[t].symbol)
           k == task[t].alias_idx
       IN
       IF k > Len(al) \/ ~script_running
       THEN Set(t, [pc |-> "after_resolve"])
       ELSE IF al[k] = task[t].symbol
       THEN Set(t, [alias_idx |-> k + 1])
       ELSE Set(t, FetchEnter(script, al[k], task[t].start_date))
    /\ UNCHANGED <<mainVars, dbVars>>

\* the alias loop without the return on a non-empty alias frame
TaAfterAlias_NoStop(t) ==
    /\ At(t, "fetch_return")
    /\ task[t].alias_idx > 0
    /\ Set(t, [df |-> task[t].ret_df,
               name |-> ResolvedName(script, task[t].symbol, task[t].ret_name),
               alias_idx |-> task[t].alias_idx + 1, pc |-> "alias_loop"])
    /\ UNCHANGED <<mainVars, dbVars>>

\* if alias_df is not None and not alias_df.empty: return
TaAfterAlias(t) ==
    /\ At(t, "fetch_return")
    /\ task[t].alias_idx > 0
    /\ IF ~DfEmpty(task[t].ret_df)
       THEN Set(t, [df |-> task[t].ret_df,
                    name |-> ResolvedName(script, task[t].symbol, task[t].ret_name),
                    pc |-> "after_resolve"])
       ELSE Set(t, [alias_idx |-> task[t].alias_idx + 1, pc |-> "alias_loop"])
    /\ UNCHANGED <<mainVars, dbVars>>

(***************************************************************************)
(* process_symbol, after try_aliases.                                      *)
(***************************************************************************)
\* process_symbol without its test of an empty result
AfterResolve_NoSkip(t) ==
    /\ At(t, "after_resolve")
    /\ Set(t, [pc |-> "insert_stock"])
    /\ UNCHANGED <<mainVars, dbVars>>

\* if name is None or df is None or df.empty: return
AfterResolve(t) ==
    /\ At(t, "after_resolve")
    /\ IF DfEmpty(task[t].df)
       THEN Return(t, [outcome |-> "no_data"])
       ELSE Set(t, [pc |-> "insert_stock"])
    /\ UNCHANGED <<mainVars, dbVars>>

\* the instrument stored under the identifier that gave the bars
InsertStock_UnderIdent(t) ==
    /\ At(t, "insert_stock")
    /\ ~aborted
    /\ txn' = insert_stock(txn, task[t].ident, task[t].name)
    /\ pendingW' = pendingW \cup {<<t, "stock">>}
    /\ Set(t, [stock_id |-> InsertStockId(txn, task[t].ident), pc |-> "insert_hist"])
    /\ UNCHANGED <<mainVars, committed, committedW, aborted>>

\* stock_id = insert_stock(conn, symbol, name)
InsertStock(t) ==
    /\ At(t, "insert_stock")
    /\ ~aborted
    /\ txn' = insert_stock(txn, task[t].symbol, task[t].name)
    /\ pendingW' = pendingW \cup {<<t, "stock">>}
    /\ Set(t, [stock_id |-> InsertStockId(txn, task[t].symbol), pc |-> "insert_hist"])
    /\ UNCHANGED <<mainVars, committed, committedW, aborted>>

\* rows_inserted = insert_historical_data(conn, stock_id, df)
InsertHist(t) ==
    /\ At(t, "insert_hist")
    /\ ~aborted
    /\ txn' = insert_historical_data(script, txn, task[t].stock_id, task[t].df)
    /\ pendingW' = IF RowsInserted(script, task[t].stock_id, task[t].df) > 0
                   THEN pendingW \cup {<<t, "bars">>} ELSE pendingW
    /\ Set(t, [rows_inserted |-> RowsInserted(script, task[t].stock_id, task[t].df),
               pc |-> "commit"])
    /\ UNCHANGED <<mainVars, committed, committedW, aborted>>

\* conn.commit(): everything the connection's transaction holds is committed;
\* on an aborted transaction the server rolls back instead and no error is raised
Commit(t) ==
    /\ At(t, "commit")
    /\ conn = "open"
    /\ IF aborted
       THEN /\ txn' = committed
            /\ UNCHANGED <<committed, committedW>>
       ELSE /\ committed' = txn
            /\ committedW' = committedW \cup pendingW
            /\ UNCHANGED txn
    /\ pendingW' = {}
    /\ aborted' = FALSE
    /\ Return(t, [outcome |-> "success"])
    /\ UNCHANGED mainVars

\* process_symbol without its except clause, the exception reaching main
\* through the future
Except_Propagate(t) ==
    /\ At(t, "except")
    /\ mainPc' = "finally"
    /\ Return(t, [outcome |-> "failed"])
    /\ UNCHANGED <<script, script_running, batch_i, conn, auxVars, dbVars>>

\* except Exception: conn.rollback()
Except(t) ==
    /\ At(t, "except")
    /\ conn = "open"
    /\ txn' = committed
    /\ pendingW' = {}
    /\ aborted' = FALSE
    /\ Return(t, [outcome |-> "failed"])
    /\ UNCHANGED <<mainVars, committed, committedW>>

(***************************************************************************)
(* The specification of a run.                                             *)
(***************************************************************************)
Worker(t) ==
    \/ StartTask(t)
    \/ PsSkip(t)
    \/ PsBegin(t)
    \/ SelectStock(t)
    \/ GetLast(t)
    \/ DbError(t)
    \/ TryAliases(t)
    \/ GshCheck(t)
    \/ GshBackoff(t)
    \/ GshGate(t)
    \/ \E resp \in CurlResponses(task[t].ident) : GshRequest(t, resp)
    \/ CsdCheck(t)
    \/ CsdBackoff(t)
    \/ \E r \in YfHistories(task[t].ident) : CsdRequest(t, r)
    \/ \E r \in YfHistories(WithSA(task[t].ident)) : CsdRequestSA(t, r)
    \/ \E named \in BOOLEAN : CsdInfo(t, named)
    \/ TaAfterSymbol(t)
    \/ TaAliasLoop(t)
    \/ TaAfterAlias(t)
    \/ AfterResolve(t)
    \/ InsertStock(t)
    \/ InsertHist(t)
    \/ Commit(t)
    \/ Except(t)

Next ==
    \/ Timeout
    \/ Connect
    \/ ConnectFail
    \/ LoopEnd
    \/ LoopBreak
    \/ SubmitBatch
    \/ WaitBatch
    \/ Pause
    \/ Shutdown
    \/ Finally
    \/ \E t \in Tasks : Worker(t)

Spec == Init /\ [][Next]_vars

\* the stores of a run in which two of the three symbols are behind
LiveSyncs ==
    {<<"old", "never", "yesterday">>,
     <<"nobars", "today", "never">>}

InitLive ==
    /\ script \in Scripts
    /\ script_running = TRUE
    /\ mainPc = "connect"
    /\ batch_i = 0
    /\ conn = "none"
    /\ task = [t \in Tasks |-> NewTask]
    /\ committed \in {StoreOf(sync) : sync \in LiveSyncs}
    /\ txn = committed
    /\ pendingW = {}
    /\ committedW = {}
    /\ aborted = FALSE
    /\ call = NoCall
    /\ last_age = 0
    /\ req_age = 0
    /\ gate = [w \in Threads |-> GateIdle]
    /\ backoff = BackoffIdle
    /\ parse = ParseIdle
    /\ batch_size = BatchSize
    /\ max_workers = MaxWorkers

\* a run in which whatever can take a step eventually does: threads are
\* scheduled, requests return and sleeps end
SpecLive == InitLive /\ [][Next]_vars /\ WF_vars(Next)

(***************************************************************************)
(* Serial runs: BATCH_SIZE = 1 and MAX_WORKERS = 1, from every store.      *)
(***************************************************************************)
InitSerial ==
    /\ script \in Scripts
    /\ script_running = TRUE
    /\ mainPc = "connect"
    /\ batch_i = 0
    /\ conn = "none"
    /\ task = [t \in Tasks |-> NewTask]
    /\ committed \in InitStores
    /\ txn = committed
    /\ pendingW = {}
    /\ committedW = {}
    /\ aborted = FALSE
    /\ call = NoCall
    /\ last_age = 0
    /\ req_age = 0
    /\ gate = [w \in Threads |-> GateIdle]
    /\ backoff = BackoffIdle
    /\ parse = ParseIdle
    /\ batch_size = 1
    /\ max_workers = 1

SpecSerial == InitSerial /\ [][Next]_vars /\ WF_vars(Next)

(***************************************************************************)
(* Runs in which the server drops the connection.                          *)
(***************************************************************************)
\* the server closes the connection: the open transaction is gone and every
\* later call on the connection raises
ConnLost ==
    /\ conn = "open"
    /\ conn' = "lost"
    /\ txn' = committed
    /\ pendingW' = {}
    /\ aborted' = TRUE
    /\ UNCHANGED <<auxVars, script, script_running, mainPc, batch_i, task, committed,
                   committedW>>

\* conn.commit() raises on the lost connection
CommitLost(t) ==
    /\ At(t, "commit")
    /\ conn = "lost"
    /\ Set(t, [pc |-> "except"])
    /\ UNCHANGED <<mainVars, dbVars>>

\* except Exception: conn.rollback() raises on the lost connection, so the
\* exception leaves process_symbol before logging.error and stays in the
\* future, whose result main never reads
ExceptLost(t) ==
    /\ At(t, "except")
    /\ conn = "lost"
    /\ Return(t, [outcome |-> "none"])
    /\ UNCHANGED <<mainVars, dbVars>>

NextLost ==
    \/ Next
    \/ ConnLost
    \/ \E t \in Tasks : CommitLost(t) \/ ExceptLost(t)

SpecLost == InitLive /\ [][NextLost]_vars

(***************************************************************************)
(* Runs under other settings of BATCH_SIZE and MAX_WORKERS, from stores in *)
(* which one symbol is left to sync.                                       *)
(***************************************************************************)
\* the sync states of the stores these runs start from
PoolSyncs ==
    {<<"today", "never", "today">>,
     <<"never", "today", "today">>,
     <<"today", "today", "never">>}

\* the settings of the runs: <<BATCH_SIZE, MAX_WORKERS>>
PoolSettings == (1..NSymbols) \X (1..MaxWorkers)

InitPool ==
    /\ script \in Scripts
    /\ script_running = TRUE
    /\ mainPc = "connect"
    /\ batch_i = 0
    /\ conn = "none"
    /\ task = [t \in Tasks |-> NewTask]
    /\ committed \in {StoreOf(sync) : sync \in PoolSyncs}
    /\ txn = committed
    /\ pendingW = {}
    /\ committedW = {}
    /\ aborted = FALSE
    /\ call = NoCall
    /\ last_age = 0
    /\ req_age = 0
    /\ gate = [w \in Threads |-> GateIdle]
    /\ backoff = BackoffIdle
    /\ parse = ParseIdle
    /\ \E st \in PoolSettings : batch_size = st[1] /\ max_workers = st[2]

SpecPool == InitPool /\ [][Next]_vars

(***************************************************************************)
(* A session of persistence calls: insert_stock followed by                *)
(* insert_historical_data, as process_symbol calls them, on any symbol,    *)
(* name and frame, one call after the other on one connection.             *)
(***************************************************************************)
BaseBar == [open |-> 1, high |-> 2, low |-> 1, close |-> 2, volume |-> 5]
OtherBar == [open |-> 2, high |-> 3, low |-> 2, close |-> 3, volume |-> 7]

\* the bars a day can come with: two sound ones, and the sound one with one
\* cell missing, zero or negative
BarPool ==
    {BaseBar, OtherBar}
    \cup {[BaseBar EXCEPT ![f] = x] : f \in DOMAIN BaseBar, x \in {NaN, 0}}
    \cup {[BaseBar EXCEPT !.low = -1]}

Absent == [open |-> NaN, high |-> NaN, low |-> NaN, close |-> NaN, volume |-> -1]

\* the days a frame of the session can hold
FrameDays == <<Today - 1, Today>>

\* a frame as the provider sends it: no bar or the sound bar for the first
\* day, no bar or any bar of the pool for the last day
RawFrames ==
    {raw \in [1..Len(FrameDays) -> BarPool \cup {Absent}] :
        \A k \in 1..(Len(FrameDays) - 1) : raw[k] \in {BaseBar, Absent}}

PresentDays(raw) == SelectSeq([k \in 1..Len(FrameDays) |-> k], LAMBDA k : raw[k] # Absent)

\* the frame insert_historical_data receives: the curl script's comes out of
\* process_yahoo_data, the yfinance script's is ticker.history's as it is
FrameDf(scr, raw) ==
    LET ks == PresentDays(raw)
        col(f) == [j \in 1..Len(ks) |-> raw[ks[j]][f]]
    IN
    IF scr = "curl"
    THEN IF ks = << >> THEN DfNone
         ELSE process_yahoo_data(
                  Payload([j \in 1..Len(ks) |-> FrameDays[ks[j]]], col("open"),
                          col("high"), col("low"), col("close"), col("volume")))
    ELSE Df([j \in 1..Len(ks) |->
                Row(FrameDays[ks[j]], raw[ks[j]].open, raw[ks[j]].high,
                    raw[ks[j]].low, raw[ks[j]].close, raw[ks[j]].volume, 0, 0)])

\* the session is on the second symbol of the universe
SessionSymbols == {symbols[2]}

SessionNames(symbol) == {symbol, InfoName(symbol)}

InitDb ==
    /\ script \in Scripts
    /\ script_running = TRUE
    /\ mainPc = "connect"
    /\ batch_i = 0
    /\ conn = "open"
    /\ task = [t \in Tasks |-> NewTask]
    /\ committed \in InitStores
    /\ txn = committed
    /\ pendingW = {}
    /\ committedW = {}
    /\ aborted = FALSE
    /\ call = NoCall
    /\ last_age = 0
    /\ req_age = 0
    /\ gate = [w \in Threads |-> GateIdle]
    /\ backoff = BackoffIdle
    /\ parse = ParseIdle
    /\ batch_size = BatchSize
    /\ max_workers = MaxWorkers

\* the frames a call of the session can receive
SessionFrames(scr) == {FrameDf(scr, raw) : raw \in RawFrames}

\* stock_id = insert_stock(conn, symbol, name);
\* rows_inserted = insert_historical_data(conn, stock_id, df)
DbSync(symbol, name, df) ==
    /\ txn' = insert_historical_data(script, insert_stock(txn, symbol, name),
                                     InsertStockId(txn, symbol), df)
    /\ call' = [symbol |-> symbol, name |-> name, df |-> df,
                id |-> InsertStockId(txn, symbol),
                count |-> RowsInserted(script, InsertStockId(txn, symbol), df),
                repeat |-> /\ call.id # 0
                           /\ call.symbol = symbol
                           /\ call.name = name
                           /\ call.df = df]
    /\ UNCHANGED <<script, script_running, mainPc, batch_i, conn, task, committed,
                   pendingW, committedW, aborted, last_age, req_age, gate, backoff,
                   batch_size, max_workers, parse>>

NextDb ==
    \E symbol \in SessionSymbols :
        \E name \in SessionNames(symbol) :
            \E df \in SessionFrames(script) : DbSync(symbol, name, df)

SpecDb == InitDb /\ [][NextDb]_vars

(***************************************************************************)
(* The request gate in time.  The pool threads call respect_rate_limit     *)
(* (curl script) or go straight to the request (yfinance script, which has *)
(* no gate).  Time advances in whole seconds; a statement takes no time, a *)
(* sleep takes its wait, and a thread stays away from the gate as long as  *)
(* the rest of its work takes.  Ages are kept up to MIN_REQUEST_INTERVAL.  *)
(***************************************************************************)
\* random.uniform(0.5, 2.0), to the second
Jitters == {1, 2}

Older(age) == IF age < MIN_REQUEST_INTERVAL THEN age + 1 ELSE age

gateVars ==
    <<script, script_running, mainPc, batch_i, conn, task, committed, txn,
      pendingW, committedW, aborted, call, backoff, batch_size, max_workers, parse>>

\* last_request_time = time.time() at import; no request was made yet
InitGate ==
    /\ script \in Scripts
    /\ script_running = TRUE
    /\ mainPc = "loop"
    /\ batch_i = 0
    /\ conn = "open"
    /\ task = [t \in Tasks |-> NewTask]
    /\ committed = EmptyStore
    /\ txn = committed
    /\ pendingW = {}
    /\ committedW = {}
    /\ aborted = FALSE
    /\ call = NoCall
    /\ last_age = 0
    /\ req_age = MIN_REQUEST_INTERVAL
    /\ gate = [w \in Threads |-> GateIdle]
    /\ backoff = BackoffIdle
    /\ parse = ParseIdle
    /\ batch_size = BatchSize
    /\ max_workers = MaxWorkers

\* respect_rate_limit up to the sleep: elapsed = time.time() - last_request_time
GateEnter(w, jitter) ==
    /\ script = "curl"
    /\ gate[w].pc = "away"
    /\ LET elapsed == last_age IN
       IF elapsed < MIN_REQUEST_INTERVAL
       THEN gate' = [gate EXCEPT ![w] = [pc |-> "sleep",
                                         wait |-> MIN_REQUEST_INTERVAL - elapsed + jitter]]
       ELSE gate' = [gate EXCEPT ![w] = [pc |-> "stamp", wait |-> 0]]
    /\ UNCHANGED <<gateVars, last_age, req_age>>

\* time.sleep(wait_time) returns
GateWake(w) ==
    /\ gate[w].pc = "sleep"
    /\ gate[w].wait = 0
    /\ gate' = [gate EXCEPT ![w].pc = "stamp"]
    /\ UNCHANGED <<gateVars, last_age, req_age>>

\* last_request_time = time.time()
GateStamp(w) ==
    /\ gate[w].pc = "stamp"
    /\ last_age' = 0
    /\ gate' = [gate EXCEPT ![w].pc = "send"]
    /\ UNCHANGED <<gateVars, req_age>>

\* the yfinance script's thread reaches its request: there is no gate
YfCall(w) ==
    /\ script = "yf"
    /\ gate[w].pc = "away"
    /\ gate' = [gate EXCEPT ![w].pc = "send"]
    /\ UNCHANGED <<gateVars, last_age, req_age>>

\* session.get(...) / ticker.history(...): the request begins
SendRequest(w) ==
    /\ gate[w].pc = "send"
    /\ req_age' = 0
    /\ gate' = [gate EXCEPT ![w].pc = "away"]
    /\ UNCHANGED <<gateVars, last_age>>

\* a second passes: no thread is at a statement and no sleep is over
Tick ==
    /\ \A w \in Threads : gate[w].pc \in {"away", "sleep"}
    /\ \A w \in Threads : gate[w].pc = "sleep" => gate[w].wait > 0
    /\ last_age' = Older(last_age)
    /\ req_age' = Older(req_age)
    /\ gate' = [w \in Threads |->
                   IF gate[w].pc = "sleep"
                   THEN [gate[w] EXCEPT !.wait = @ - 1] ELSE gate[w]]
    /\ UNCHANGED gateVars

NextGate ==
    \/ Tick
    \/ \E w \in Threads :
          \/ \E jitter \in Jitters : GateEnter(w, jitter)
          \/ GateWake(w)
          \/ GateStamp(w)
          \/ YfCall(w)
          \/ SendRequest(w)

SpecGate == InitGate /\ [][NextGate]_vars

\* a request to the provider begins in this step
RequestBegins(w) == gate[w].pc = "send" /\ gate'[w].pc # "send"

\* C3: any two consecutive requests of the process begin at least
\* MIN_REQUEST_INTERVAL apart, however the threads interleave.
C3_RequestSpacing ==
    [][\A w \in Threads : RequestBegins(w) => req_age >= MIN_REQUEST_INTERVAL]_vars

\* the threads between the read of last_request_time and its update: each
\* of them computed its wait from the value that is still there
InGate == {w \in Threads : gate[w].pc \in {"sleep", "stamp"}}

\* C24: last_request_time is read and updated under mutual exclusion: no two
\* threads are between their read of it and their update of it at once, so no
\* two of them decide on the same value and both go on to a request.
C24_GateMutex == Cardinality(InGate) <= 1

(***************************************************************************)
(* One call of get_stock_history for an identifier, with the deadline not  *)
(* reached: the responses it receives and what it returns.                 *)
(***************************************************************************)
\* the identifiers the curl script requests for the symbols and the aliases
ParseIdents ==
    {format_symbol(AllSymbols[k]) : k \in 1..Len(AllSymbols)}
    \cup UNION {{format_symbol(SYMBOL_ALIASES(AllSymbols[k])[j]) :
                    j \in 1..Len(SYMBOL_ALIASES(AllSymbols[k]))} :
                k \in 1..Len(AllSymbols)}

parseVars ==
    <<script, script_running, mainPc, batch_i, conn, task, committed, txn,
      pendingW, committedW, aborted, call, last_age, req_age, gate, backoff,
      batch_size, max_workers>>

InitParse ==
    /\ script = "curl"
    /\ script_running = TRUE
    /\ mainPc = "loop"
    /\ batch_i = 0
    /\ conn = "open"
    /\ task = [t \in Tasks |-> NewTask]
    /\ committed = EmptyStore
    /\ txn = committed
    /\ pendingW = {}
    /\ committedW = {}
    /\ aborted = FALSE
    /\ call = NoCall
    /\ last_age = 0
    /\ req_age = 0
    /\ gate = [w \in Threads |-> GateIdle]
    /\ backoff = BackoffIdle
    /\ batch_size = BatchSize
    /\ max_workers = MaxWorkers
    /\ parse \in {[ParseIdle EXCEPT !.pc = "att_check", !.ident = id] : id \in ParseIdents}

\* an array of the result is missing or the arrays differ in length
StructurallyIncomplete(data) ==
    \/ Len(data.timestamp) = 0
    \/ \E f \in {"open", "high", "low", "close", "volume"} :
           Len(data[f]) # Len(data.timestamp)

\* for attempt in range(retries): the loop test
ParseCheck ==
    /\ parse.pc = "att_check"
    /\ parse' = IF parse.attempt >= Retries \/ ~script_running
                THEN [parse EXCEPT !.ret_df = DfNone, !.pc = "fetch_return"]
                ELSE [parse EXCEPT !.pc = "request"]
    /\ UNCHANGED parseVars

\* session.get(url, ...) and the handling of its response
ParseRequest(resp) ==
    /\ parse.pc = "request"
    /\ parse' = GshHandle(resp, parse.attempt)
                @@ [resp |-> resp,
                    sound |-> \/ parse.sound
                              \/ resp.kind = "result"
                                 /\ ~StructurallyIncomplete(resp.data)]
                @@ parse
    /\ UNCHANGED parseVars

NextParse ==
    \/ ParseCheck
    \/ \E resp \in CurlResponses(parse.ident) : ParseRequest(resp)

SpecParse == InitParse /\ [][NextParse]_vars

\* C28: a response without result, or whose arrays are missing or differ in
\* length, gives no bars: get_stock_history goes on to its next attempt or
\* returns nothing, and a call that never received a whole result returns
\* without bars.
C28_IncompleteIsEmpty ==
    /\ parse.pc \in {"att_check", "request", "fetch_return"}
    /\ (parse.pc # "request" /\ parse.resp.kind = "no_result") =>
          parse.pc = "fetch_return" /\ DfEmpty(parse.ret_df)
    /\ (parse.pc = "fetch_return" /\ parse.resp.kind = "result"
        /\ StructurallyIncomplete(parse.resp.data)) => DfEmpty(parse.ret_df)
    /\ (parse.pc = "fetch_return" /\ ~parse.sound) => DfEmpty(parse.ret_df)

\* the call returned without bars after its last attempt received two
\* timestamps with one quote each
C28_Witness ==
    /\ parse.pc = "fetch_return"
    /\ parse.attempt = Retries
    /\ ~parse.sound
    /\ parse.resp.kind = "result"
    /\ Len(parse.resp.data.timestamp) = 2
    /\ Len(parse.resp.data.open) = 1
    /\ DfEmpty(parse.ret_df)

(***************************************************************************)
(* The sleeps of one fetch loop.  get_stock_history(retries) and           *)
(* collect_stock_data(max_retries) run with the number of attempts as      *)
(* their parameter; every request fails or returns.  Delays are in tenths  *)
(* of a second.                                                            *)
(***************************************************************************)
\* random.uniform(0, 1) of get_stock_history, in tenths of a second
CurlJitters == {0, 5, 10}
\* random.uniform(0.5, 1.5) of collect_stock_data, in tenths
YfJitters == {5, 10, 15}

BackoffJitters(scr) == IF scr = "curl" THEN CurlJitters ELSE YfJitters

\* the sleep before an attempt without its jitter, in tenths of a second:
\* 2 ** attempt in get_stock_history, delay in collect_stock_data
PreJitter(scr, attempt, delay) ==
    IF scr = "curl" THEN 10 * (2 ^ attempt) ELSE 10 * delay

\* backoff_time = (2 ** attempt) + random.uniform(0, 1);
\* sleep_time = delay * jitter
SleepTime(scr, attempt, delay, jitter) ==
    IF scr = "curl" THEN 10 * (2 ^ attempt) + jitter ELSE delay * jitter

backoffVars ==
    <<script, script_running, mainPc, batch_i, conn, task, committed, txn,
      pendingW, committedW, aborted, call, last_age, req_age, gate, batch_size,
      max_workers, parse>>

\* retry = 0, delay = 1
InitBackoff ==
    /\ script \in Scripts
    /\ script_running = TRUE
    /\ mainPc = "loop"
    /\ batch_i = 0
    /\ conn = "open"
    /\ task = [t \in Tasks |-> NewTask]
    /\ committed = EmptyStore
    /\ txn = committed
    /\ pendingW = {}
    /\ committedW = {}
    /\ aborted = FALSE
    /\ call = NoCall
    /\ last_age = 0
    /\ req_age = 0
    /\ gate = [w \in Threads |-> GateIdle]
    /\ batch_size = BatchSize
    /\ max_workers = MaxWorkers
    /\ backoff \in {[BackoffIdle EXCEPT !.pc = "check", !.retries = r, !.delay = 1] :
                       r \in 1..MaxRetriesArg}
    /\ parse = ParseIdle

\* the loop test, then if attempt > 0 the computation of the sleep
BoCheck(jitter) ==
    /\ backoff.pc = "check"
    /\ backoff' =
          IF backoff.attempt >= backoff.retries
          THEN [backoff EXCEPT !.pc = "done"]
          ELSE IF backoff.attempt = 0
          THEN [backoff EXCEPT !.pc = "call"]
          ELSE [backoff EXCEPT
                   !.pc = "sleep",
                   !.prev_pre = backoff.pre,
                   !.pre = PreJitter(script, backoff.attempt, backoff.delay),
                   !.sleep_time = SleepTime(script, backoff.attempt, backoff.delay,
                                            jitter)]
    /\ UNCHANGED backoffVars

\* time.sleep(...) returns; delay *= 2 in collect_stock_data
BoSleep ==
    /\ backoff.pc = "sleep"
    /\ backoff' = [backoff EXCEPT !.pc = "call",
                                  !.delay = IF script = "yf" THEN 2 * @ ELSE @]
    /\ UNCHANGED backoffVars

\* the request fails in a way that is retried
BoCallFails ==
    /\ backoff.pc = "call"
    /\ backoff' = [backoff EXCEPT !.pc = "check", !.attempt = @ + 1]
    /\ UNCHANGED backoffVars

\* the request returns bars: the function returns
BoCallReturns ==
    /\ backoff.pc = "call"
    /\ backoff' = [backoff EXCEPT !.pc = "done"]
    /\ UNCHANGED backoffVars

NextBackoff ==
    \/ \E jitter \in BackoffJitters(script) : BoCheck(jitter)
    \/ BoSleep
    \/ BoCallFails
    \/ BoCallReturns

SpecBackoff == InitBackoff /\ [][NextBackoff]_vars

\* C12: the sleep before retry k is 2^(k-1) seconds times a jitter in
\* [0.5, 1.5]: without the jitter it is 1, 2, 4, ... seconds, each more than the
\* one before, and with it never less than half of that nor more than one and
\* a half times that.
C12_BackoffSchedule ==
    backoff.pc = "sleep" =>
        LET k == backoff.attempt
            sched == 10 * (2 ^ (k - 1))
        IN
        /\ backoff.pre = sched
        /\ 10 * backoff.sleep_time >= 5 * sched
        /\ 10 * backoff.sleep_time <= 15 * sched
        /\ k > 1 => backoff.pre > backoff.prev_pre

(***************************************************************************)
(* Claims about a run.                                                     *)
(***************************************************************************)
Kinds == {"stock", "bars"}

\* the unit of work of position t writes bars in this sync
UnitBars(t) ==
    IF At(t, "insert_hist")
    THEN RowsInserted(script, task[t].stock_id, task[t].df) > 0
    ELSE task[t].rows_inserted > 0

\* C1: in every committed state each symbol's unit of work is all or nothing:
\* its instrument row is committed only together with its bars, and a unit
\* that ended in an exception has none of its writes committed.
C1_UnitAtomicity ==
    \A t \in Tasks :
        /\ (<<t, "stock">> \in committedW /\ UnitBars(t)) => <<t, "bars">> \in committedW
        /\ task[t].outcome = "failed" => \A k \in Kinds : <<t, k>> \notin committedW

FetchPcs == {"request", "request_sa"}

\* a worker's request to the provider begins in this step
FetchBegins(t) ==
    /\ task[t].status = "running"
    /\ task[t].pc \in FetchPcs
    /\ task'[t] # task[t]

\* C2: once script_running is False no worker begins a request to the
\* provider, wherever the worker was when the deadline expired.
C2_NoFetchAfterDeadline ==
    [][\A t \in Tasks : FetchBegins(t) => script_running]_vars

BatchIndex(t) == (t - 1) \div batch_size

\* C4: no symbol of a later batch is submitted or started while a future of an
\* earlier batch is not done.
C4_BatchBarrier ==
    \A t, u \in Tasks :
        (BatchIndex(t) < BatchIndex(u) /\ task[u].status # "new")
            => task[t].status = "done"

\* a symbol of the second batch is being processed
C4_Witness ==
    \E u \in Tasks :
        /\ BatchIndex(u) > 0
        /\ task[u].status = "running"
        /\ \E t \in Tasks : BatchIndex(t) < BatchIndex(u) /\ task[t].fetched

\* C5: a symbol whose last stored bar is of today or later ends as already
\* current without a request to the provider.
C5_AlreadyCurrent ==
    \A t \in Tasks :
        (task[t].saw_last # None /\ task[t].saw_last.day >= Today)
            => /\ task[t].status = "done"
               /\ task[t].outcome = "current"
               /\ ~task[t].fetched

\* a symbol with a bar of today was found current
C5_Witness ==
    \E t \in Tasks :
        /\ task[t].saw_last # None
        /\ task[t].saw_last.day = Today
        /\ task[t].outcome = "current"
        /\ \E b \in committed.bars : b.stock_id = t /\ b.date = Today

InFetch(t) ==
    /\ task[t].status = "running"
    /\ task[t].pc \in {"att_check", "backoff", "gate", "request", "request_sa", "info"}

\* C6: a symbol whose last stored bar is of a day d before today, yesterday
\* included, is not found current: its fetch window starts at d + 1 and, unless
\* the deadline intervenes, a request for that window is made.
C6_IncrementalWindow ==
    \A t \in Tasks :
        (task[t].saw_last # None /\ task[t].saw_last.day < Today)
            => /\ task[t].outcome # "current"
               /\ InFetch(t) => task[t].period1.day = task[t].saw_last.day + 1
               /\ (task[t].status = "done" /\ script_running) => task[t].fetched

\* the floors the code paths fall back to
EpochFloors == {EpochFloorCurl, EpochFloorYf}

\* C7: for a symbol without a stored bar the fetch window starts at one fixed
\* floor date, the floor of every code path.
C7_EpochFloor ==
    \A t \in Tasks :
        (InFetch(t) /\ task[t].start_date = None)
            => \A f \in EpochFloors : task[t].period1.day = f

(***************************************************************************)
(* Claims about the resolver and the fetch loops.                          *)
(***************************************************************************)
\* the symbol variant try_aliases is at: the symbol itself, then its aliases
Variant(symbol, k) == IF k = 0 THEN symbol ELSE SYMBOL_ALIASES(symbol)[k]

\* the identifier requested for a variant
VariantIdent(scr, v) == IF scr = "curl" THEN format_symbol(v) ELSE v

\* the fetch of a variant starts in this step
FetchStarts(t) == InFetch(t)' /\ ~InFetch(t)

\* C11: try_aliases fetches the symbol itself first, fetches an alias only
\* after every variant before it came back empty, takes the aliases in list
\* order, and returns the bars of the first variant that has any without
\* fetching another.
C11_AliasOrder ==
    [][\A t \in Tasks :
        LET a == task[t]
            b == task'[t]
        IN
        /\ FetchStarts(t) =>
              /\ b.ident = VariantIdent(script, Variant(a.symbol, b.alias_idx))
              /\ IF a.pc = "resolve" THEN b.alias_idx = 0
                 ELSE /\ a.pc = "alias_loop"
                      /\ b.alias_idx = a.alias_idx
                      /\ a.alias_idx \in 1..Len(SYMBOL_ALIASES(a.symbol))
                      /\ DfEmpty(a.df)
        /\ (a.status = "running" /\ b.status = "running"
            /\ b.alias_idx # a.alias_idx) =>
              /\ b.alias_idx = a.alias_idx + 1
              /\ a.pc = "fetch_return"
              /\ DfEmpty(a.ret_df)
        /\ (At(t, "fetch_return") /\ ~DfEmpty(a.ret_df) /\ b # a) =>
              /\ b.pc = "after_resolve"
              /\ b.df = a.ret_df
              /\ b.alias_idx = a.alias_idx]_vars

\* the resolver came back with the bars of the second alias
C11_Witness ==
    \E t \in Tasks :
        /\ At(t, "after_resolve")
        /\ task[t].alias_idx = 2
        /\ ~DfEmpty(task[t].df)

\* the provider identifiers the fetch of a variant addresses: the curl script
\* requests format_symbol of it, the yfinance script the variant as given and,
\* on an empty frame, the variant with the suffix .SA
Addressed(scr, v) == IF scr = "curl" THEN {format_symbol(v)} ELSE {v, WithSA(v)}

\* C31: within the resolution of one symbol the symbol's own fetch and the
\* fetches of its aliases address pairwise distinct provider identifiers: a
\* fetch of an alias addresses no identifier that the fetch of a variant
\* before it addressed.
C31_DistinctIdentifiers ==
    [][\A t \in Tasks :
        (FetchStarts(t) /\ task[t].pc = "alias_loop") =>
            \A j \in 0..(task'[t].alias_idx - 1) :
                Addressed(script, Variant(task[t].symbol, task'[t].alias_idx))
                \cap Addressed(script, Variant(task[t].symbol, j)) = {}]_vars

\* the same for the aliases among themselves, the symbol's own fetch left out
C31_DistinctAliases ==
    [][\A t \in Tasks :
        (FetchStarts(t) /\ task[t].pc = "alias_loop") =>
            \A j \in 1..(task'[t].alias_idx - 1) :
                Addressed(script, Variant(task[t].symbol, task'[t].alias_idx))
                \cap Addressed(script, Variant(task[t].symbol, j)) = {}]_vars

\* the fetch loop of position t gives up in this step with the deadline not
\* reached: it returns no bars from its loop test
GivesUp(t) ==
    /\ At(t, "att_check")
    /\ script_running
    /\ task'[t].pc = "fetch_return"

\* C13: a fetch loop whose requests all fail gives up after the first request
\* and Retries retries, no sooner and no later.
C13_BoundedRetries ==
    [][\A t \in Tasks : GivesUp(t) => task[t].attempt = 1 + Retries]_vars

\* the fetch of a variant returns without bars in this step
ReturnsEmpty(t) ==
    /\ InFetch(t)
    /\ task'[t].pc = "fetch_return"
    /\ DfEmpty(task'[t].ret_df)

\* C25: with the deadline not reached the fetch of a variant returns without
\* bars only when all its attempts are used up: an empty answer on an earlier
\* attempt is followed by another attempt.
C25_EmptyAfterRetries ==
    [][\A t \in Tasks :
        (ReturnsEmpty(t) /\ script_running) => task[t].attempt >= Retries]_vars

\* C26: a fetch loop that comes to its loop test with the deadline passed, as
\* it does after an attempt that failed past the deadline, returns without
\* bars at once: it starts no backoff sleep and no further attempt.
C26_AbandonOnDeadline ==
    [][\A t \in Tasks :
        (At(t, "att_check") /\ ~script_running /\ task'[t] # task[t]) =>
            /\ task'[t].pc = "fetch_return"
            /\ DfEmpty(task'[t].ret_df)
            /\ task'[t].attempt = task[t].attempt]_vars

\* collect_stock_data returned without bars after one or two failed attempts,
\* with attempts left: it left its loop because the deadline had passed
C26_Witness ==
    \E t \in Tasks :
        /\ script = "yf"
        /\ ~script_running
        /\ At(t, "fetch_return")
        /\ DfEmpty(task[t].ret_df)
        /\ task[t].attempt \in 1..(Retries - 1)

\* C27: with the deadline expired try_aliases goes to no further alias: it
\* does not enter the alias loop, it breaks out of the loop before the fetch of
\* the next alias, and it returns the empty result it has.
C27_AliasLoopDeadline ==
    [][\A t \in Tasks :
        LET a == task[t]
            b == task'[t]
        IN
        (~script_running /\ b # a) =>
            /\ (At(t, "fetch_return") /\ a.alias_idx = 0) => b.pc = "after_resolve"
            /\ At(t, "alias_loop") =>
                  /\ b.pc = "after_resolve"
                  /\ b.df = a.df
                  /\ DfEmpty(b.df)
            /\ ~(FetchStarts(t) /\ b.alias_idx > 0)]_vars

\* try_aliases broke out of its loop at the deadline with an alias left
C27_Witness ==
    \E t \in Tasks :
        /\ ~script_running
        /\ At(t, "after_resolve")
        /\ DfEmpty(task[t].df)
        /\ task[t].fetched
        /\ task[t].alias_idx \in 1..Len(SYMBOL_ALIASES(task[t].symbol))

(***************************************************************************)
(* Claims about failures and the deadline in a run.                        *)
(***************************************************************************)
\* process_symbol of position t ends in its except clause in this step
Fails(t) == task[t].outcome # "failed" /\ task'[t].outcome = "failed"

\* main is past its batch loop
PastLoop == mainPc \in {"shutdown", "finally", "done", "crashed"}

\* C14: an exception in the processing of one symbol stays in its worker: the
\* step that ends the symbol as failed changes neither main nor any other
\* symbol's processing, and unless the deadline expires main leaves its loop
\* only when every symbol of every batch has run to its end.
C14_FailureContainment ==
    /\ [][\A t \in Tasks :
            Fails(t) =>
                /\ mainPc' = mainPc
                /\ batch_i' = batch_i
                /\ conn' = conn
                /\ script_running' = script_running
                /\ \A u \in Tasks \ {t} : task'[u] = task[u]]_vars
    /\ [](PastLoop /\ conn # "none" /\ script_running
            => \A t \in Tasks : task[t].status = "done")

\* a symbol of the first batch failed; the other one succeeded and the run
\* went on through the second batch to its end
C14_Witness ==
    /\ mainPc = "done"
    /\ script_running
    /\ \E t, u, v \in Tasks :
          /\ BatchIndex(t) = 0 /\ task[t].outcome = "failed"
          /\ BatchIndex(u) = 0 /\ task[u].outcome = "success"
          /\ BatchIndex(v) = 1 /\ task[v].status = "done"
          /\ task[v].outcome # "skipped_timeout"

\* C15: the rollback of one symbol's unit discards none of the writes of
\* another unit: a unit that ended with success has its instrument row and
\* its bars committed.
C15_RollbackIsolation ==
    \A t \in Tasks :
        task[t].outcome = "success" =>
            /\ <<t, "stock">> \in committedW
            /\ task[t].rows_inserted > 0 => <<t, "bars">> \in committedW

\* main has left the with block of the executor
RunEnded == mainPc \in {"finally", "done", "crashed"}

C17_BoundedConcurrency ==
    /\ Cardinality(Running) <= max_workers
    /\ Cardinality(Running) <= batch_size
    /\ Running \cup Queued \subseteq BatchOf(batch_i)

\* the pool of two threads is full and a symbol of the batch waits
C17_Witness ==
    /\ max_workers = 2
    /\ Cardinality(Running) = max_workers
    /\ Queued # {}
    /\ \E t \in Running : task[t].fetched

\* the positions of the n-th batch of a partition into batches of batch_size
NthBatch(n) == {t \in Tasks : (n - 1) * batch_size < t /\ t <= n * batch_size}

\* the positions main submits in this step
Submitted == {t \in Tasks : task[t].status # "queued" /\ task'[t].status = "queued"}

\* C18: main submits the universe in contiguous batches of BATCH_SIZE
\* positions in universe order, the last one possibly shorter, each position
\* once; when the deadline does not expire every position was processed at
\* the end of the run.
C18_BatchPartition ==
    /\ [][Submitted # {} =>
            \E n \in 1..NSymbols :
                /\ Submitted = NthBatch(n)
                /\ \A t \in Tasks :
                      IF t <= (n - 1) * batch_size
                      THEN task[t].status = "done" /\ task'[t].status = "done"
                      ELSE task[t].status = "new"]_vars
    /\ []((mainPc = "done" /\ conn = "closed" /\ script_running)
            => \A t \in Tasks : task[t].status = "done")

\* a run with batches of two over three symbols came to its end with every
\* position processed, the last batch holding one symbol
C18_Witness ==
    /\ batch_size = 2
    /\ NSymbols % batch_size # 0
    /\ mainPc = "done"
    /\ script_running
    /\ \A t \in Tasks : task[t].status = "done"
    /\ \E t \in Tasks : task[t].outcome = "success"

\* C19: every run comes to its end, and a run that got its connection reaches
\* the end of main with the connection closed, whatever the provider answers
\* and whether or not the deadline expires.
C19_Termination ==
    /\ <>(mainPc \in {"done", "crashed"})
    /\ (conn = "open") ~> (mainPc = "done" /\ conn = "closed")

\* a run ended after the provider failed every request of a symbol and the
\* deadline expired
C19_Witness ==
    /\ mainPc = "done"
    /\ conn = "closed"
    /\ ~script_running
    /\ \E t \in Tasks : task[t].outcome = "no_data" /\ task[t].fetched
    /\ \E t \in Tasks : task[t].outcome = "skipped_timeout"

\* the terminal events process_symbol logs: skipped at the deadline, already
\* current, no data, success with its row count, failed with its reason
Outcomes == {"skipped_timeout", "current", "no_data", "success", "failed"}

\* C20: every symbol handed to a worker ends with exactly one terminal event:
\* a symbol whose processing is over has one, and an event once logged is
\* never followed by another.
C20_OneOutcome ==
    /\ [](\A t \in Tasks : task[t].status = "done" => task[t].outcome \in Outcomes)
    /\ [][\A t \in Tasks :
            task'[t].outcome # task[t].outcome =>
                /\ task[t].outcome = "none"
                /\ task[t].status = "running"
                /\ task'[t].status = "done"]_vars

(***************************************************************************)
(* Claims about the outcome of a symbol.                                   *)
(***************************************************************************)
StockRows(db, symbol) == {r \in db.stocks : r.symbol = symbol}

BarsOf(db, symbol) == {b \in db.bars : \E r \in StockRows(db, symbol) : b.stock_id = r.id}

\* the number of valid daily bars the provider holds for an identifier
ValidBars(ident) ==
    LET p == ChartData(ident) IN
    Cardinality({k \in 1..Len(p.timestamp) :
                    \A x \in {p.open[k], p.high[k], p.low[k], p.close[k], p.volume[k]} :
                        x # NaN /\ x > 0})

\* process_symbol of position t ends with the given event in this step
EndsAs(t, outcome) == task[t].outcome = "none" /\ task'[t].outcome = outcome

\* C21: in a serial run a never-synced symbol for which the provider gave n
\* valid bars ends as success with one instrument row and n bars committed and
\* the count n; a never-synced symbol for which every attempt came back empty
\* ends as no data with no row committed, then or later; and the run goes on to
\* its end.
C21_EndToEnd ==
    /\ [][\A t \in Tasks :
            LET sym == symbols[t] IN
            /\ (EndsAs(t, "success") /\ StockRows(committed, sym) = {}) =>
                  /\ Cardinality(StockRows(committed', sym)) = 1
                  /\ Cardinality(BarsOf(committed', sym)) = ValidBars(task[t].ident)
                  /\ task'[t].rows_inserted = ValidBars(task[t].ident)
            /\ (EndsAs(t, "no_data") /\ StockRows(committed, sym) = {}) =>
                  StockRows(committed', sym) = {}
            /\ task[t].outcome = "no_data" =>
                  /\ StockRows(committed', sym) = StockRows(committed, sym)
                  /\ BarsOf(committed', sym) = BarsOf(committed, sym)]_vars
    /\ \A t \in Tasks : (task[t].outcome = "no_data") ~> (mainPc = "done")

\* a serial run ended with one never-synced symbol stored with its bar and
\* another, without aliases, without data after requests and without a row
C21_Witness ==
    /\ mainPc = "done"
    /\ batch_size = 1
    /\ max_workers = 1
    /\ \E t, u \in Tasks :
          /\ task[t].outcome = "success"
          /\ task[t].rows_inserted = 1
          /\ Cardinality(StockRows(committed, symbols[t])) = 1
          /\ Cardinality(BarsOf(committed, symbols[t])) = 1
          /\ task[u].outcome = "no_data"
          /\ task[u].fetched
          /\ ~HasAliases(symbols[u])
          /\ StockRows(committed, symbols[u]) = {}

\* the names a variant can resolve to: the provider's name of the identifier
\* that gave the bars, or the variant itself when the provider has no name
VariantNames(v) == {v, InfoName(v), InfoName(WithSA(v))}

\* try_aliases of position t returns in this step
Resolved(t) ==
    /\ task[t].status = "running"
    /\ task[t].pc # "after_resolve"
    /\ task'[t].pc = "after_resolve"

\* C22: try_aliases returns with the bars the name resolved from the variant
\* that gave them; without bars from any variant it returns the original
\* symbol as the name, and process_symbol then skips the symbol and writes
\* nothing, whatever the name.
C22_NamePolicy ==
    [][\A t \in Tasks :
        LET a == task[t]
            b == task'[t]
        IN
        /\ (Resolved(t) /\ ~DfEmpty(b.df)) =>
              b.name \in VariantNames(Variant(a.symbol, a.alias_idx))
        /\ (Resolved(t) /\ DfEmpty(b.df)) => b.name = a.symbol
        /\ (At(t, "after_resolve") /\ DfEmpty(a.df) /\ b # a) =>
              /\ b.outcome = "no_data"
              /\ txn' = txn
              /\ committed' = committed]_vars

\* C23: when psycopg2.connect fails the run is over: main never gets a
\* connection later, no symbol is handed to the pool, no request is made and
\* the store stays as it was.
C23_FatalConnectFailure ==
    /\ [](conn = "none" =>
            /\ \A t \in Tasks : task[t].status = "new" /\ ~task[t].fetched
            /\ txn = committed
            /\ pendingW = {}
            /\ committedW = {})
    /\ [][(conn = "none" /\ mainPc # "connect") =>
            /\ conn' = "none"
            /\ mainPc' \in {"finally", "done", "crashed"}
            /\ task' = task
            /\ committed' = committed]_vars

\* the run ended without a connection
C23_Witness ==
    /\ conn = "none"
    /\ mainPc \in {"done", "crashed"}
    /\ \A t \in Tasks : task[t].status = "new"

\* C34: after psycopg2.connect has failed, main's cleanup raises nothing and
\* main goes on to its end-of-run log: the run is in its cleanup or past it,
\* never ended by an exception of the cleanup.
C34_CleanEndOnConnectFailure ==
    (conn = "none" /\ mainPc # "connect") => mainPc \in {"finally", "done"}

\* the same for the curl script alone
C34_CleanEndCurl ==
    (script = "curl" /\ conn = "none" /\ mainPc # "connect") =>
        mainPc \in {"finally", "done"}

\* the symbols of the universe
Universe == {symbols[k] : k \in 1..Len(symbols)}

\* the alias strings of the universe's symbols
AliasStrings ==
    UNION {{SYMBOL_ALIASES(sym)[j] : j \in 1..Len(SYMBOL_ALIASES(sym))} : sym \in Universe}

\* C30: every instrument row is keyed by a symbol of the universe, never by an
\* alias string, also when the bars came through an alias; insert_stock of a
\* symbol's processing writes the row of its canonical symbol, and the bars the
\* processing writes carry the id that insert_stock returned.
C30_CanonicalKey ==
    /\ [](\A r \in txn.stocks \cup committed.stocks :
            r.symbol \in Universe /\ r.symbol \notin AliasStrings)
    /\ [][\A t \in Tasks :
            /\ (At(t, "insert_stock") /\ task'[t].pc = "insert_hist") =>
                   \E r \in txn'.stocks :
                       r.symbol = symbols[t] /\ r.id = task'[t].stock_id
            /\ (At(t, "insert_hist") /\ task'[t].pc = "commit") =>
                   \A b \in txn'.bars \ txn.bars :
                       b.stock_id = task[t].stock_id]_vars

\* the bars of the second alias of a symbol are written under the symbol
C30_Witness ==
    \E t \in Tasks :
        /\ At(t, "commit")
        /\ task[t].alias_idx = 2
        /\ task[t].rows_inserted = 1
        /\ \E r \in txn.stocks :
              /\ r.symbol = symbols[t]
              /\ \E b \in txn.bars : b.stock_id = r.id /\ b.date = Today

\* the ids that instruments or bars of a store carry
IdsOf(db) == {r.id : r \in db.stocks} \cup {b.stock_id : b \in db.bars}

\* C32: over a run, whatever its syncs end as, no committed bar is deleted or
\* moved to another date, every committed instrument keeps its id, and the
\* committed most recent bar date of every instrument never decreases.
C32_MonotonicSync ==
    [][/\ \A b \in committed.bars :
             \E c \in committed'.bars : c.stock_id = b.stock_id /\ c.date = b.date
       /\ \A r \in committed.stocks :
             SelectStockId(committed', r.symbol) = r.id
       /\ \A id \in IdsOf(committed) :
             get_last_update_date(committed, id) # None =>
                /\ get_last_update_date(committed', id) # None
                /\ get_last_update_date(committed', id).day
                       >= get_last_update_date(committed, id).day]_vars

\* a sync committed a newer bar of an instrument that had an older one, in a
\* run in which another sync failed
C32_Witness ==
    \E t \in Tasks : \E u \in Tasks \ {t} :
        /\ <<t, "bars">> \in committedW
        /\ task[u].outcome = "failed"
        /\ \E r \in committed.stocks :
              /\ r.symbol = symbols[t]
              /\ get_last_update_date(committed, r.id) = Date(Today)
              /\ \E b \in committed.bars : b.stock_id = r.id /\ b.date < Today

\* the frame has rows and none of them passes the validity filter
NoValidRow(df) == ~DfEmpty(df) /\ SelectSeq(df.rows, ValidRow) = << >>

\* process_symbol of position t goes on to its writes with a frame that has
\* rows, writes no bar for a frame without a valid row, and commits
WritesInstrument(t) ==
    /\ (At(t, "after_resolve") /\ ~DfEmpty(task[t].df) /\ task'[t] # task[t]) =>
          task'[t].pc = "insert_stock"
    /\ (At(t, "insert_hist") /\ NoValidRow(task[t].df)
        /\ task'[t].pc = "commit") =>
          /\ task'[t].rows_inserted = 0
          /\ txn'.bars = txn.bars
    /\ (EndsAs(t, "success") /\ NoValidRow(task[t].df)) =>
          /\ task[t].pc = "commit"
          /\ task'[t].rows_inserted = 0
          /\ <<t, "bars">> \notin committedW'

\* C33: a symbol resolved to a frame that has rows is written and committed
\* also when no row of the frame passes the validity filter: it then ends as
\* success with count 0, the committed store holds its instrument row, and
\* the sync has added no bar.
C33_InstrumentWithoutBars ==
    [][\A t \in Tasks :
        /\ WritesInstrument(t)
        /\ (EndsAs(t, "success") /\ NoValidRow(task[t].df)) =>
              \E r \in committed'.stocks :
                  r.symbol = symbols[t] /\ r.id = task[t].stock_id]_vars

\* the same for a sync whose instrument row is still in the transaction when
\* it commits
C33_InstrumentWithoutBarsKept ==
    [][\A t \in Tasks :
        /\ WritesInstrument(t)
        /\ (EndsAs(t, "success") /\ NoValidRow(task[t].df)
            /\ <<t, "stock">> \in pendingW /\ ~aborted) =>
              \E r \in committed'.stocks :
                  r.symbol = symbols[t] /\ r.id = task[t].stock_id]_vars

(***************************************************************************)
(* Persistence claims, checked on the session of persistence calls.        *)
(***************************************************************************)
Rows(df) == {df.rows[k] : k \in 1..Len(df.rows)}

\* the validity rule of a price bar: every cell present, volume and the four
\* prices above zero
SoundBar(r) ==
    /\ \A x \in {r.open, r.high, r.low, r.close, r.volume} : x # NaN /\ x > 0

SameBar(b, id, r) ==
    /\ b.stock_id = id
    /\ b.date = r.date
    /\ b.open = r.open
    /\ b.high = r.high
    /\ b.low = r.low
    /\ b.close = r.close
    /\ b.volume = r.volume

\* a call of the session took place in this step
Called == call' # call \/ txn' # txn

\* C8: insert_historical_data writes exactly the bars whose five cells are all
\* present with volume and prices above zero, writes no other bar, and returns
\* the number of those bars; with none of them it returns 0 and writes nothing.
C8_ValidityFilter ==
    [][Called =>
        LET sound == {r \in Rows(call'.df) : SoundBar(r)} IN
        /\ call'.count = Cardinality(sound)
        /\ \A r \in sound : \E b \in txn'.bars : SameBar(b, call'.id, r)
        /\ \A b \in txn'.bars \ txn.bars : \E r \in sound : SameBar(b, call'.id, r)
        /\ call'.count = 0 => txn'.bars = txn.bars]_vars

\* a frame of two bars, one sound and one not, went through the call
C8_Witness ==
    /\ call.id # 0
    /\ Len(call.df.rows) = 2
    /\ call.count = 1
    /\ \E b \in txn.bars : b.stock_id = call.id /\ b.date = call.df.rows[1].date

\* C9: insert_stock then insert_historical_data run again on the input of the
\* call before leave every stored row as it was and return the same id and count.
C9_Idempotent ==
    [][call'.repeat =>
        /\ txn' = txn
        /\ call'.id = call.id
        /\ call'.count = call.count]_vars

\* the same symbol, name and frame were persisted twice in a row, bars included
C9_Witness ==
    /\ call.repeat
    /\ call.count > 0
    /\ call.name # call.symbol

\* C10: after every call the store holds one bar row per (stock_id, date) at
\* most; the row of a key the call upserted holds the call's values, and the
\* row of any other key is the one stored before.
C10_LastWriteWins ==
    [][Called =>
        LET data == HistData(script, call'.id, call'.df)
            hit(b) == \E k \in 1..Len(data) :
                          data[k].stock_id = b.stock_id /\ data[k].date = b.date
        IN
        /\ \A b1, b2 \in txn'.bars :
               (b1.stock_id = b2.stock_id /\ b1.date = b2.date) => b1 = b2
        /\ \A k \in 1..Len(data) : data[k] \in txn'.bars
        /\ \A b \in txn.bars : ~hit(b) => b \in txn'.bars
        /\ \A b \in txn'.bars : ~hit(b) => b \in txn.bars]_vars

\* a bar the store started with was overwritten with other values
C10_Witness ==
    /\ call.count > 0
    /\ \E old \in committed.bars : \E b \in txn.bars :
           /\ b.stock_id = old.stock_id
           /\ b.date = old.date
           /\ b.stock_id = call.id
           /\ b.open # old.open

\* C29: every stored bar has min_price = low and max_price = high, in the
\* open transaction and in the committed store, after every insert and every
\* update on conflict.
C29_DerivedPrices ==
    \A b \in txn.bars \cup committed.bars :
        /\ b.min_price = b.low
        /\ b.max_price = b.high

\* a stored bar was updated on conflict to another low and high
C29_Witness ==
    \E old \in committed.bars : \E b \in txn.bars :
        /\ b.stock_id = old.stock_id
        /\ b.date = old.date
        /\ b.low # old.low
        /\ b.high # old.high
        /\ b.min_price = b.low
        /\ b.max_price = b.high

====
